---- MODULE Spec2Model ----
(***************************************************************************)
(* Model of the DroidRun control-plane server (src/server.py) together     *)
(* with the note tools of src/agent_brain.py and the environment setup of  *)
(* src/utils.py.                                                           *)
(*                                                                         *)
(* The server is one asyncio event loop.  A handler without an await runs  *)
(* atomically; run_droid_task_logic has exactly one suspension point, the  *)
(* await of line 164, so a background run is two atomic steps: everything  *)
(* up to the await, and everything after it.  A task made by               *)
(* asyncio.create_task does not execute anything until the event loop      *)
(* reaches it, so other handlers can run between /execute and the first    *)
(* step of the run it created.                                             *)
(* The loop starts the tasks it holds in the order they were created       *)
(* (the queue ready).                                                      *)
(*                                                                         *)
(* Texts are sequences of tokens; an optional text is <<>> (None) or       *)
(* <<t>> (the text t).                                                     *)
(*                                                                         *)
(* Spec has the session with every interleaving of requests and run steps; *)
(* SpecResults has every shape of result, exception text and user keyboard *)
(* with one run at a time; SpecKeyboard has /execute, /stop and the runs   *)
(* with every capture succeeding; SpecHistory has update_history alone and *)
(* SpecStore the handlers of macros, guides, history and the device        *)
(* bridge, which share no state with the session.  Inside a run the files  *)
(* session_memory.json and recent_query.json can be read and written; the  *)
(* failures of files and of adb are inputs of SpecStore and of             *)
(* get_current_keyboard.                                                   *)
(***************************************************************************)
EXTENDS Integers, Sequences, FiniteSets, TLC

\* ---------------------------------------------------------------- bounds
MaxTasks == 2         \* task objects alive at the same time
MaxShuffled == 4      \* longest history of which any entry is inserted again

\* ------------------------------------------------------ program constants
MinCommandLen == 3
HistoryMax == 10

NoTask == 0           \* state._active_task is None
NoKb == "None"        \* an absent keyboard identifier (Python None)
NoFile == [exists |-> FALSE, data |-> {}]   \* session_memory.json does not exist

UserIme == "com.user/.Keyboard"
AgentIme == "com.droidrun.portal/.DroidrunKeyboardIME"
DefaultIme == "com.google.android.inputmethod.latin/com.android.inputmethod.latin.LatinIME"
Imes == {UserIme, AgentIme, DefaultIme}

\* A keyboard whose identifier has the letters "null" in it, and what the
\* device reports when no keyboard is set.
NullIme == "com.example.nullboard/.Ime"
NullSentinel == "null"

TimeoutMsg == <<"Task exceeded 5 minute timeout">>
UnknownFailure == <<"Unknown failure">>
InitFailedPrefix == "Failed to initialize agent: "

\* ----------------------------------------------------------------- texts
Whitespace == {" ", "\t", "\n"}

RECURSIVE LStrip(_)
LStrip(t) == IF t # <<>> /\ Head(t) \in Whitespace THEN LStrip(Tail(t)) ELSE t

RECURSIVE RStrip(_)
RStrip(t) ==
    IF t # <<>> /\ t[Len(t)] \in Whitespace THEN RStrip(SubSeq(t, 1, Len(t) - 1)) ELSE t

Strip(t) == RStrip(LStrip(t))

Contains(t, tok) == \E i \in 1..Len(t) : t[i] = tok

LowerTok(tok) ==
    CASE tok = "Timeout" -> "timeout"
      [] tok = "Rate Limit" -> "rate limit"
      [] tok = "RATE_LIMIT" -> "rate_limit"
      [] tok = "A" -> "a"
      [] tok = "B" -> "b"
      [] tok = "M" -> "m"
      [] OTHER -> tok

\* str.lower() of one character: U+0130, the capital I with a dot above, becomes
\* the two characters "i" and U+0307, the combining dot.
LowerChar(ch) == IF ch = "U+0130" THEN <<"i", "U+0307">> ELSE <<LowerTok(ch)>>

RECURSIVE Lower(_)
Lower(t) == IF t = <<>> THEN <<>> ELSE LowerChar(Head(t)) \o Lower(Tail(t))

\* str.replace("TASK_COMPLETE:", ""): the marker is the token TASK_COMPLETE
\* directly followed by the token ":".
RECURSIVE ReplaceMarker(_)
ReplaceMarker(t) ==
    IF t = <<>> THEN <<>>
    ELSE IF Len(t) >= 2 /\ t[1] = "TASK_COMPLETE" /\ t[2] = ":"
         THEN ReplaceMarker(SubSeq(t, 3, Len(t)))
         ELSE <<Head(t)>> \o ReplaceMarker(Tail(t))

Some(x) == <<x>>
NoText == <<>>

\* ------------------------------------------------- the agent's result object
\* A result object is duck-typed: each attribute is absent (<<>>) or holds a
\* Python value (<<v>>).  str() of a value is its text, or "None" for None.
PyStr(t) == [py |-> "str", s |-> t]
PyNone == [py |-> "NoneType", s |-> <<>>]
Str(v) == IF v.py = "NoneType" THEN <<"None">> ELSE v.s

TextFields == {"structured_output", "output", "result", "reason"}

\* The words the hint rules of server.py 205-210 and 228-231 look for, in the
\* spellings that tell the rules apart.
HintWords == {"Manager response invalid", "Timeout", "Rate Limit", "RATE_LIMIT", "429"}

\* What an attribute holds: the name of the attribute as a text, an empty
\* text, None, "TASK_COMPLETE: X " (marker), " TASK_COMPLETE X" (bare: the
\* word without its colon), or one of the hint words.
Flavours == {"text", "empty", "none", "marker", "bare"} \cup HintWords
ReprText == <<"<ResultEvent>">>

FieldValue(f, fl) ==
    CASE fl = "text" -> PyStr(<<f>>)
      [] fl = "empty" -> PyStr(<<>>)
      [] fl = "none" -> PyNone
      [] fl = "marker" -> PyStr(<<"TASK_COMPLETE", ":", " ", "X", " ">>)
      [] fl = "bare" -> PyStr(<<" ", "TASK_COMPLETE", " ", "X">>)
      [] OTHER -> PyStr(<<fl>>)

Attr(has, f, fl) == IF f \in has THEN <<FieldValue(f, fl)>> ELSE <<>>

ResultObject(has, fl, sc) ==
    [structured_output |-> Attr(has, "structured_output", fl),
     output |-> Attr(has, "output", fl),
     result |-> Attr(has, "result", fl),
     reason |-> Attr(has, "reason", fl),
     success |-> sc,
     repr |-> ReprText]

SuccessAttrs == {<<>>, <<TRUE>>, <<FALSE>>}

\* The results the agent returns here: every combination of attributes with
\* distinct texts, and each attribute alone with every other content.
ResultObjects ==
    { ResultObject(has, "text", sc) : has \in SUBSET TextFields, sc \in SuccessAttrs }
    \cup { ResultObject({f}, fl, sc) : f \in TextFields, fl \in Flavours, sc \in SuccessAttrs }

\* A successful result, a failed one and a failed one without text.
CoreResults ==
    { ResultObject({"output"}, "text", <<>>),
      ResultObject({"output", "reason"}, "text", <<FALSE>>),
      ResultObject({"output"}, "empty", <<FALSE>>) }

HasAttr(a) == a # <<>>

NormalizeResultFirst(obj, use_structured) ==
    IF use_structured /\ HasAttr(obj.structured_output) THEN Str(obj.structured_output[1])
    ELSE IF HasAttr(obj.result) THEN Str(obj.result[1])
    ELSE IF HasAttr(obj.output) THEN Str(obj.output[1])
    ELSE IF HasAttr(obj.reason) THEN Str(obj.reason[1])
    ELSE obj.repr

\* server.py 168-180: the text of the result, by the first attribute present.
Normalize(obj, use_structured) ==
    IF use_structured /\ HasAttr(obj.structured_output) THEN Str(obj.structured_output[1])
    ELSE IF HasAttr(obj.output) THEN Str(obj.output[1])
    ELSE IF HasAttr(obj.result) THEN Str(obj.result[1])
    ELSE IF HasAttr(obj.reason) THEN Str(obj.reason[1])
    ELSE obj.repr

\* server.py 183-185
IsSuccess(obj) == IF HasAttr(obj.success) THEN obj.success[1] ELSE TRUE

\* server.py 192-197: the stored result of a successful run.
SuccessResult(final) ==
    IF Contains(final, "TASK_COMPLETE") THEN Strip(ReplaceMarker(final)) ELSE final

FailureResultNoFallback(final) == final

\* server.py 201: final_output or "Unknown failure"
FailureResult(final) == IF final = <<>> THEN UnknownFailure ELSE final

\* ------------------------------------------------------------- log lines
\* A log line is kept as its kind; its text is the stored result of the moment.
Line(kind, text) == kind

FailureHintsTwice(res) ==
    IF Contains(res, "429")
    THEN <<Line("hint", <<"Hit API rate limit">>), Line("hint", <<"Hit API rate limit">>)>>
    ELSE <<>>

\* server.py 205-210
FailureHints(res) ==
    IF Contains(res, "Manager response invalid")
    THEN <<Line("hint", <<"The AI response format was unexpected">>)>>
    ELSE IF Contains(Lower(res), "timeout")
    THEN <<Line("hint", <<"Task took too long">>)>>
    ELSE IF Contains(Lower(res), "rate limit") \/ Contains(res, "429")
    THEN <<Line("hint", <<"Hit API rate limit">>)>>
    ELSE <<>>

\* server.py 228-231
ErrorHints(e) ==
    IF Contains(e, "Manager response invalid")
    THEN <<Line("hint", <<"This is a formatting issue">>)>>
    ELSE IF Contains(e, "429") \/ Contains(Lower(e), "rate_limit")
    THEN <<Line("hint", <<"Hit API rate limit, wait 60 seconds">>)>>
    ELSE <<>>

\* ------------------------------------------------------------ inputs
\* Commands are sequences of characters.
Commands ==
    { <<>>, <<" ", " ", " ", " ">>, <<" ", "a", " ">>, <<"a", "b">>, <<" ", "a", "b", "\n">>,
      <<"a", "b", "c">> }

\* Texts of the exceptions the agent library raises.
ExceptionTexts == { <<"boom">> } \cup { <<w>> : w \in HintWords }

\* An exception no hint rule matches and one a rule matches.
CoreExceptions == { <<"boom">>, <<"429">> }

\* The notes an agent saves: the value names the task that saved it.
NoteKeys == {"k"}
NoteValues(r) == { <<"v", r>> }
Writer(note) == note[2][2]

\* ------------------------------------------------- /execute validation
CommandInvalidNoStrip(c) == c = <<>> \/ Len(c) < MinCommandLen

\* server.py 262: not req.command or len(req.command.strip()) < 3
CommandInvalid(c) == c = <<>> \/ Len(Strip(c)) < MinCommandLen

\* ------------------------------------------------------ history helper
\* list.remove drops the first occurrence only.
RECURSIVE RemoveFirst(_, _)
RemoveFirst(h, c) ==
    IF h = <<>> THEN <<>>
    ELSE IF Head(h) = c THEN Tail(h)
    ELSE <<Head(h)>> \o RemoveFirst(Tail(h), c)

Range(h) == { h[i] : i \in 1..Len(h) }

UpdateHistoryNoRemove(h, c) ==
    LET added == <<c>> \o h
    IN IF Len(added) > HistoryMax THEN SubSeq(added, 1, HistoryMax) ELSE added

\* server.py 115-138
UpdateHistory(h, c) ==
    LET moved == <<c>> \o RemoveFirst(h, c)
    IN IF Len(moved) > HistoryMax THEN SubSeq(moved, 1, HistoryMax) ELSE moved

\* ------------------------------------------------------ notes helpers
\* agent_brain.py 32-46: the notes file after save_note(key, value)
SaveNote(file, k, v) ==
    LET data == IF file.exists THEN file.data ELSE {}
    IN [exists |-> TRUE, data |-> { p \in data : p[1] # k } \cup { <<k, v>> }]

\* agent_brain.py 48-58: what read_notes tells the agent
ReadNotes(file) ==
    IF ~file.exists THEN [text |-> "Memory is empty. No data saved yet.", data |-> {}]
    ELSE IF file.data = {} THEN [text |-> "Memory is empty.", data |-> {}]
    ELSE [text |-> "Memory Contents:", data |-> file.data]

\* server.py 105-112
ClearMemory(file) == NoFile

\* ------------------------------------------------------------------ state
VARIABLES
    status,             \* state.status
    logs,               \* state.logs
    result,             \* state.result: <<>> (None) or <<text>>
    step_count,         \* state.step_count
    original_keyboard,  \* state.original_keyboard: NoKb or an identifier
    active_task,        \* state._active_task: NoTask or the id of a run
    runs,               \* the tasks made by asyncio.create_task, by id
    ready,              \* the tasks not yet executed, in the order of the event loop
    device_ime,         \* the input method active on the device
    history,            \* recent_query.json
    notes,              \* session_memory.json
    macros,             \* the files of the directory macros
    guides,             \* the files of the directory app_cards
    server_up,          \* FALSE once SystemExit has left the event loop
    resp                \* the answer of the handler that ran last

vars == <<status, logs, result, step_count, original_keyboard, active_task, runs, ready,
          device_ime, history, notes, macros, guides, server_up, resp>>

session == <<status, logs, result, step_count, original_keyboard>>
stores == <<macros, guides>>
files == <<history, notes, stores>>

RunIds == 1..MaxTasks

\* A task object: pc is where its coroutine stands ("created": made by
\* create_task and not yet executed, "awaiting": suspended in the await of line
\* 164, "done": finished, or never made), cancel is the pending cancellation
\* request, task_text and use_structured are the arguments of the run and
\* captured is what get_current_keyboard gave it.  A finished task keeps
\* nothing; once state._active_task no longer refers to it, it is garbage and
\* the next task takes its place.
NoRun ==
    [pc |-> "done", cancel |-> FALSE, task_text |-> <<>>, use_structured |-> FALSE,
     captured |-> NoKb]

NewRun(c, us) == [NoRun EXCEPT !.pc = "created", !.task_text = c, !.use_structured = us]

Pending(r) == runs[r].pc \in {"created", "awaiting"}
PendingRuns == { r \in RunIds : Pending(r) }
FreeIds == { r \in RunIds : ~Pending(r) /\ r # active_task }
NextId == CHOOSE r \in FreeIds : \A q \in FreeIds : r <= q
\* The answer of a handler is kept as its HTTP status code.
Response(h, code, msg) == code

InitDevice(ime) ==
    /\ status = "idle"
    /\ logs = <<>>
    /\ result = NoText
    /\ step_count = 0
    /\ original_keyboard = NoKb
    /\ active_task = NoTask
    /\ runs = [r \in RunIds |-> NoRun]
    /\ ready = <<>>
    /\ device_ime = ime
    /\ history = <<>>
    /\ notes = NoFile
    /\ macros = {}
    /\ guides = {}
    /\ server_up = TRUE
    /\ resp = 0

Init == InitDevice(UserIme)

\* The keyboards a device comes with.
UserKeyboards == {UserIme, NullIme, NullSentinel}

InitResults == \E ime \in UserKeyboards : InitDevice(ime)

\* --------------------------------------------------- device-bridge adapter
\* What "settings get secure default_input_method" prints.
SettingsOutput == <<device_ime, "\n">>

\* "null" in kb: the letters occur somewhere in the text.
ContainsNull(kb) == \E i \in 1..Len(kb) : kb[i] \in {NullSentinel, NullIme}

\* server.py 86-96: the identifier, or None; adb_ok: the process ran.
GetCurrentKeyboard(adb_ok) ==
    IF ~adb_ok THEN NoKb
    ELSE LET kb == Strip(SettingsOutput)
         IN IF kb # <<>> /\ ~ContainsNull(kb) THEN kb[1] ELSE NoKb

\* server.py 98-103: the device after set_keyboard(ime_id)
SetKeyboard(ime_id) == IF ime_id # NoKb THEN ime_id ELSE device_ime

\* ---------------------------------------------------------------- /execute
\* server.py 257-268
Busy == status = "running" /\ active_task # NoTask

ExecuteConflict(c) ==
    /\ server_up
    /\ Busy
    /\ resp' = Response("execute", 409, "Agent is busy. Stop current task first.")
    /\ UNCHANGED <<session, active_task, runs, ready, device_ime, files, server_up>>

ExecuteInvalidAfterCreate(c) ==
    /\ server_up
    /\ ~Busy
    /\ CommandInvalid(c)
    /\ FreeIds # {}
    /\ runs' = [runs EXCEPT ![NextId] = NewRun(c, FALSE)]
    /\ ready' = Append(ready, NextId)
    /\ active_task' = NextId
    /\ resp' = Response("execute", 400, "Command too short or empty")
    /\ UNCHANGED <<session, device_ime, files, server_up>>

ExecuteInvalid(c) ==
    /\ server_up
    /\ ~Busy
    /\ CommandInvalid(c)
    /\ resp' = Response("execute", 400, "Command too short or empty")
    /\ UNCHANGED <<session, active_task, runs, ready, device_ime, files, server_up>>

ExecuteAccept(c, us) ==
    /\ server_up
    /\ ~Busy
    /\ ~CommandInvalid(c)
    /\ FreeIds # {}
    /\ runs' = [runs EXCEPT ![NextId] = NewRun(c, us)]
    /\ ready' = Append(ready, NextId)
    /\ active_task' = NextId
    /\ resp' = Response("execute", 200, "Task started")
    /\ UNCHANGED <<session, device_ime, files, server_up>>

Execute(c, us) == ExecuteConflict(c) \/ ExecuteInvalid(c) \/ ExecuteAccept(c, us)

\* ------------------------------------------------------ the background run
\* server.py 233-239, with kb the value of state.original_keyboard
Cleanup(r, kb) ==
    /\ device_ime' = SetKeyboard(kb)
    /\ active_task' = NoTask
    /\ runs' = [runs EXCEPT ![r] = NoRun]

\* server.py 142-150: the reset every first step of a run makes
Prologue(r, kb) ==
    /\ step_count' = 0
    /\ original_keyboard' = kb
    /\ notes' = ClearMemory(notes)
    /\ history' = UpdateHistory(history, runs[r].task_text)

\* The event loop runs first steps in the order the tasks were created.
IsNext(r) == server_up /\ ready # <<>> /\ r = Head(ready)

CanStart(r) == IsNext(r) /\ ~runs[r].cancel

\* server.py 142-164: the first step, up to the await of agent.run()
RunStart(r, kb_ok) ==
    LET kb == GetCurrentKeyboard(kb_ok) IN
    /\ CanStart(r)
    /\ Prologue(r, kb)
    /\ status' = "running"
    /\ logs' = <<Line("executing", runs[r].task_text)>>
    /\ result' = NoText
    /\ runs' = [runs EXCEPT ![r].pc = "awaiting", ![r].captured = kb]
    /\ ready' = Tail(ready)
    /\ UNCHANGED <<active_task, device_ime, stores, server_up, resp>>

\* server.py 158, agent_brain.py 144-163: create_agent raises RuntimeError;
\* server.py 221-231 and 233-239 follow in the same step.
RunInitFails(r, kb_ok, e) ==
    LET kb == GetCurrentKeyboard(kb_ok)
        msg == <<InitFailedPrefix>> \o e
    IN
    /\ CanStart(r)
    /\ Prologue(r, kb)
    /\ status' = "error"
    /\ result' = Some(msg)
    /\ logs' = <<Line("error", msg)>> \o ErrorHints(msg)
    /\ Cleanup(r, kb)
    /\ ready' = Tail(ready)
    /\ UNCHANGED <<stores, server_up, resp>>

\* agent_brain.py 108, utils.py 23-27: the API key is missing and
\* setup_gemini_env calls sys.exit(1).  SystemExit is not an Exception, so no
\* except clause of server.py 212-231 takes it; the cleanup runs and the
\* exception leaves the task and the event loop.
RunInitExits(r, kb_ok) ==
    LET kb == GetCurrentKeyboard(kb_ok) IN
    /\ CanStart(r)
    /\ Prologue(r, kb)
    /\ status' = "running"
    /\ logs' = <<>>
    /\ result' = NoText
    /\ Cleanup(r, kb)
    /\ ready' = Tail(ready)
    /\ server_up' = FALSE
    /\ UNCHANGED <<stores, resp>>

Resumes(r) == server_up /\ r \in RunIds /\ runs[r].pc = "awaiting"

\* server.py 164-210: agent.run() returned obj
RunReturns(r, obj) ==
    LET final == Normalize(obj, runs[r].use_structured)
        good == SuccessResult(final)
        bad == FailureResult(final)
    IN
    /\ Resumes(r)
    /\ ~runs[r].cancel
    /\ IF IsSuccess(obj)
       THEN /\ status' = "success"
            /\ result' = Some(good)
            /\ logs' = Append(logs, Line(IF Contains(final, "TASK_COMPLETE")
                                         THEN "completed" ELSE "success", good))
       ELSE /\ status' = "failed"
            /\ result' = Some(bad)
            /\ logs' = Append(logs, Line("failed", bad)) \o FailureHints(bad)
    /\ Cleanup(r, original_keyboard)
    /\ UNCHANGED <<step_count, original_keyboard, ready, files, server_up, resp>>

\* server.py 164, 212-215: the deadline of wait_for passed
RunTimeout(r) ==
    /\ Resumes(r)
    /\ ~runs[r].cancel
    /\ status' = "failed"
    /\ result' = Some(TimeoutMsg)
    /\ logs' = Append(logs, Line("timeout", <<"Task timed out after 5 minutes">>))
    /\ Cleanup(r, original_keyboard)
    /\ UNCHANGED <<step_count, original_keyboard, ready, files, server_up, resp>>

\* server.py 217-219: the cancellation requested by /stop reaches the await
RunCancelled(r) ==
    /\ Resumes(r)
    /\ runs[r].cancel
    /\ status' = "stopped"
    /\ logs' = Append(logs, Line("stopped", <<"Task manually stopped by user">>))
    /\ Cleanup(r, original_keyboard)
    /\ UNCHANGED <<result, step_count, original_keyboard, ready, files, server_up, resp>>

\* server.py 221-231: agent.run() raised an Exception with text e
RunRaises(r, e) ==
    /\ Resumes(r)
    /\ ~runs[r].cancel
    /\ status' = "error"
    /\ result' = Some(e)
    /\ logs' = Append(logs, Line("error", e)) \o ErrorHints(e)
    /\ Cleanup(r, original_keyboard)
    /\ UNCHANGED <<step_count, original_keyboard, ready, files, server_up, resp>>

\* server.py 265, 273: a task cancelled before its first step never executes
\* its coroutine: the event loop throws CancelledError into the unstarted
\* coroutine, which ends without entering the try of line 156.
RunCancelledUnstarted(r) ==
    /\ IsNext(r)
    /\ runs[r].cancel
    /\ runs' = [runs EXCEPT ![r] = NoRun]
    /\ ready' = Tail(ready)
    /\ UNCHANGED <<session, active_task, device_ime, files, server_up, resp>>

\* ------------------------------------------------- the agent, while awaited
\* The agent library installs its own input method on the device.
AgentSetsKeyboard(r) ==
    /\ Resumes(r)
    /\ device_ime # AgentIme
    /\ device_ime' = AgentIme
    /\ UNCHANGED <<session, active_task, runs, ready, files, server_up, resp>>

\* agent_brain.py 32-46: the agent calls the save_note tool
AgentSaveNote(r, k, v) ==
    /\ Resumes(r)
    /\ notes' = SaveNote(notes, k, v)
    /\ UNCHANGED <<session, active_task, runs, ready, device_ime, history, stores, server_up,
                   resp>>

\* ------------------------------------------------------- other handlers
\* server.py 270-277.  Task.cancel() does nothing to a task that is done.
Stop ==
    /\ server_up
    /\ IF active_task # NoTask
       THEN /\ runs' = [runs EXCEPT ![active_task].cancel = Pending(active_task)]
            /\ device_ime' = SetKeyboard(original_keyboard)
            /\ resp' = Response("stop", 200, "Task stopped")
       ELSE /\ resp' = Response("stop", 200, "No active task")
            /\ UNCHANGED <<runs, device_ime>>
    /\ UNCHANGED <<session, active_task, ready, files, server_up>>

\* server.py 279-284
FixKeyboard ==
    LET target == IF original_keyboard # NoKb THEN original_keyboard ELSE DefaultIme IN
    /\ server_up
    /\ device_ime' = SetKeyboard(target)
    /\ resp' = Response("fix_keyboard", 200, "Keyboard reset")
    /\ UNCHANGED <<session, active_task, runs, ready, files, server_up>>

\* server.py 248-255: what /status shows
StatusView ==
    [status |-> status,
     logs |-> IF Len(logs) > 100 THEN SubSeq(logs, Len(logs) - 99, Len(logs)) ELSE logs,
     result |-> result,
     step_count |-> step_count]

GetStatus ==
    /\ server_up
    /\ resp' = Response("status", 200, "")
    /\ UNCHANGED <<session, active_task, runs, ready, device_ime, files, server_up>>

\* server.py 287-293: what /history returns
GetHistory == history

\* ------------------------------------------- update_history on its own
\* Eleven commands, told apart by their length: 3 to 13 letters.
NumCommands == HistoryMax + 1
Cmd(i) == [j \in 1..(i + 2) |-> "a"]
Index(c) == Len(c) - 2
HistoryCommands == { Cmd(i) : i \in 1..NumCommands }

\* The number of commands inserted so far, new commands coming in order.
Newest(h) == IF h = <<>> THEN 0 ELSE CHOOSE n \in 1..NumCommands :
                 /\ Cmd(n) \in Range(h)
                 /\ \A i \in 1..Len(h) : Index(h[i]) <= n

\* server.py 150: update_history(c), for a new command or for one of the
\* history: any entry of a short history, the first or the last of a full one.
HistoryInsert(c) ==
    /\ IF c \in Range(history)
       THEN \/ Len(history) <= MaxShuffled
            \/ Len(history) = HistoryMax /\ c \in {history[1], history[Len(history)]}
       ELSE Index(c) = Newest(history) + 1
    /\ history' = UpdateHistory(history, c)
    /\ UNCHANGED <<session, active_task, runs, ready, device_ime, notes, stores, server_up,
                   resp>>

NextHistory == \E c \in HistoryCommands : HistoryInsert(c)

SpecHistory == Init /\ [][NextHistory]_vars

\* ------------------------------------------ macros, guides, other handlers
\* Names are sequences of characters.
UpperCase == {"M", "A", "B", "U+0130"}
LowerCase == {"y", "a", "c", "r", "o", "m", "b", "i"}
Digits == {"1"}

\* str.isalnum() of one character
IsAlnum(ch) == ch \in UpperCase \cup LowerCase \cup Digits

\* server.py 310, 333: the name of the file, without ".json"
Slug(name) ==
    LET kept == SelectSeq(name, LAMBDA ch : IsAlnum(ch) \/ ch = " ")
        trimmed == Strip(kept)
        joined == [i \in 1..Len(trimmed) |-> IF trimmed[i] = " " THEN "_" ELSE trimmed[i]]
    IN Lower(joined)

MacroNames ==
    { <<"M", "y", " ", "M", "a", "c", "r", "o", "!", " ", "#", "1">>,
      <<"m", "y", " ", "m", "a", "c", "r", "o", " ", "1">>,
      <<"U+0130">>,
      <<"!", "!">> }

GuideTitles == { <<"A", " ", "b">>, <<" ", "a", " ", "B", "!">> }

\* open(path, "w") and json.dump: the directory holds one file of that name,
\* with the new body.
WriteFile(dir, name, body) ==
    { f \in dir : f.file # name } \cup { [file |-> name, body |-> body] }

\* server.py 308-316.  io_ok: open and write succeed (they fail on a name too
\* long for a file name, a directory that cannot be written, a full disk).
CreateMacro(name, io_ok) ==
    /\ server_up
    /\ IF io_ok
       THEN /\ macros' = WriteFile(macros, Slug(name), [name |-> name, template |-> "t"])
            /\ resp' = Response("create_macro", 200, "saved")
       ELSE /\ resp' = Response("create_macro", 500, "str(e)")
            /\ UNCHANGED macros
    /\ UNCHANGED <<session, active_task, runs, ready, device_ime, history, notes, guides,
                   server_up>>

\* server.py 331-339
CreateGuide(title, io_ok) ==
    /\ server_up
    /\ IF io_ok
       THEN /\ guides' = WriteFile(guides, Slug(title),
                                   [app_name |-> "app", title |-> title, content |-> "c"])
            /\ resp' = Response("create_guide", 200, "saved")
       ELSE /\ resp' = Response("create_guide", 500, "str(e)")
            /\ UNCHANGED guides
    /\ UNCHANGED <<session, active_task, runs, ready, device_ime, history, notes, macros,
                   server_up>>

\* server.py 296-306 and 319-329: os.listdir stands outside the try, so its
\* failure leaves the handler, and the framework answers 500; a file that cannot
\* be read or parsed is skipped.
ListDir(dir, list_ok, readable) ==
    IF list_ok THEN Response("list", 200, { f.body : f \in { g \in dir : readable } })
    ELSE Response("list", 500, "Internal Server Error")

ListMacros(list_ok, readable) ==
    /\ server_up
    /\ resp' = ListDir(macros, list_ok, readable)
    /\ UNCHANGED <<session, active_task, runs, ready, device_ime, files, server_up>>

ListGuides(list_ok, readable) ==
    /\ server_up
    /\ resp' = ListDir(guides, list_ok, readable)
    /\ UNCHANGED <<session, active_task, runs, ready, device_ime, files, server_up>>

\* server.py 287-293: the list of the file, or [] when it cannot be read
History(io_ok) ==
    /\ server_up
    /\ resp' = Response("history", 200, IF io_ok THEN GetHistory ELSE <<>>)
    /\ UNCHANGED <<session, active_task, runs, ready, device_ime, files, server_up>>

\* server.py 63-83: adb connect; the outcome is the output of adb, or the
\* failure of the process
AdbOutcomes == {"connected to", "failed to connect", "process failed"}
ConnectWirelessAdb(outcome) == [success |-> outcome = "connected to", raised |-> FALSE]

\* server.py 342-359
ConnectWireless(outcome) ==
    LET res == ConnectWirelessAdb(outcome) IN
    /\ server_up
    /\ resp' = IF res.raised THEN Response("connect_wireless", 500, "Internal Server Error")
               ELSE IF res.success THEN Response("connect_wireless", 200, "success")
               ELSE Response("connect_wireless", 400, "Failed")
    /\ UNCHANGED <<session, active_task, runs, ready, device_ime, files, server_up>>

\* The handlers of the stores and of the device bridge, with their failures.
NextStore ==
    \/ \E n \in MacroNames, io_ok \in BOOLEAN : CreateMacro(n, io_ok)
    \/ \E t \in GuideTitles, io_ok \in BOOLEAN : CreateGuide(t, io_ok)
    \/ \E list_ok, readable \in BOOLEAN : ListMacros(list_ok, readable)
    \/ \E list_ok, readable \in BOOLEAN : ListGuides(list_ok, readable)
    \/ \E io_ok \in BOOLEAN : History(io_ok)
    \/ \E o \in AdbOutcomes : ConnectWireless(o)
    \/ FixKeyboard

SpecStore == Init /\ [][NextStore]_vars

\* ------------------------------------------------------- specification
\* One step of the server: its agents return results drawn from Results or
\* raise exceptions with texts drawn from Errors, its clients ask for
\* structured output as Structured allows and have a task created while
\* another is pending only if overlap.
Step(Results, Errors, Structured, overlap) ==
    \/ \E c \in Commands : ExecuteConflict(c)
    \/ \E c \in Commands : ExecuteInvalid(c)
    \/ \E c \in Commands, us \in Structured :
          (overlap \/ PendingRuns = {}) /\ ExecuteAccept(c, us)
    \/ \E r \in RunIds, kb_ok \in BOOLEAN : RunStart(r, kb_ok)
    \/ \E r \in RunIds, kb_ok \in BOOLEAN, e \in Errors : RunInitFails(r, kb_ok, e)
    \/ \E r \in RunIds, kb_ok \in BOOLEAN : RunInitExits(r, kb_ok)
    \/ \E r \in RunIds, obj \in Results : RunReturns(r, obj)
    \/ \E r \in RunIds : RunTimeout(r)
    \/ \E r \in RunIds : RunCancelled(r)
    \/ \E r \in RunIds, e \in Errors : RunRaises(r, e)
    \/ \E r \in RunIds : RunCancelledUnstarted(r)
    \/ \E r \in RunIds : AgentSetsKeyboard(r)
    \/ \E r \in RunIds, k \in NoteKeys : \E v \in NoteValues(r) : AgentSaveNote(r, k, v)
    \/ Stop
    \/ FixKeyboard
    \/ GetStatus

\* Every interleaving of requests and run steps, the agents returning one of
\* a few results, none with a structured output.
Next == Step(CoreResults, CoreExceptions, {FALSE}, TRUE)

Spec == Init /\ [][Next]_vars

\* Every result shape, exception text and keyboard of the user, with clients
\* that let a run end before they have the next one created.
NextResults == Step(ResultObjects, ExceptionTexts, BOOLEAN, FALSE)

SpecResults == InitResults /\ [][NextResults]_vars

\* /execute, /stop and the steps of the runs, every capture of the keyboard
\* succeeding and the agents switching the keyboard of the device.
KeyboardStep(overlap) ==
    \/ \E c \in Commands : ExecuteConflict(c)
    \/ \E c \in Commands : ExecuteInvalid(c)
    \/ \E c \in Commands, us \in BOOLEAN :
          (overlap \/ PendingRuns = {}) /\ ExecuteAccept(c, us)
    \/ \E r \in RunIds : RunStart(r, TRUE)
    \/ \E r \in RunIds, e \in CoreExceptions : RunInitFails(r, TRUE, e)
    \/ \E r \in RunIds : RunInitExits(r, TRUE)
    \/ \E r \in RunIds, obj \in CoreResults : RunReturns(r, obj)
    \/ \E r \in RunIds : RunTimeout(r)
    \/ \E r \in RunIds : RunCancelled(r)
    \/ \E r \in RunIds, e \in CoreExceptions : RunRaises(r, e)
    \/ \E r \in RunIds : RunCancelledUnstarted(r)
    \/ \E r \in RunIds : AgentSetsKeyboard(r)
    \/ Stop

NextKeyboard == KeyboardStep(TRUE)

SpecKeyboard == Init /\ [][NextKeyboard]_vars

\* The event loop executes a task it holds, and the call of the agent returns,
\* raises, is cancelled or meets its deadline.
FirstStep(r) ==
    \/ \E kb_ok \in BOOLEAN : RunStart(r, kb_ok)
    \/ \E kb_ok \in BOOLEAN, e \in ExceptionTexts : RunInitFails(r, kb_ok, e)
    \/ \E kb_ok \in BOOLEAN : RunInitExits(r, kb_ok)
    \/ RunCancelledUnstarted(r)

LastStep(r) ==
    \/ \E obj \in ResultObjects : RunReturns(r, obj)
    \/ RunTimeout(r)
    \/ RunCancelled(r)
    \/ \E e \in ExceptionTexts : RunRaises(r, e)

Fairness == \A r \in RunIds : WF_vars(FirstStep(r)) /\ WF_vars(LastStep(r))

SpecLive == Spec /\ Fairness

SpecResultsLive == SpecResults /\ Fairness

\* ------------------------------------------------------------- properties
TypeOK ==
    /\ status \in {"idle", "running", "success", "failed", "stopped", "error"}
    /\ active_task \in {NoTask} \cup RunIds
    /\ step_count = 0
    /\ Len(result) <= 1
\* C1: at most one background run (created by /execute and not yet finished)
\* exists at any time.
C1_AtMostOneRun == Cardinality(PendingRuns) <= 1

\* C2: while the session status is "running", every /execute request is
\* answered 409 and creates no task.
C2_RunningRejects ==
    [][\A c \in Commands, us \in BOOLEAN :
         (status = "running" /\ Execute(c, us)) => (resp' = 409 /\ runs' = runs)]_vars

\* C3: however a run ends, its cleanup has run: the active-task handle is
\* cleared, and the keyboard the run captured is the one set on the device.
C3_CleanupAlwaysRuns ==
    [][\A r \in RunIds :
         (Pending(r) /\ ~Pending(r)') =>
            /\ active_task' = NoTask
            /\ runs[r].captured # NoKb => device_ime' = runs[r].captured]_vars

\* A command of fewer than 3 characters after trimming.
Short(c) == Len(Strip(c)) < 3

\* C4 as claimed: a short command is answered 400 in every session state.
C4_ShortAlways400 ==
    [][\A c \in Commands, us \in BOOLEAN : (Short(c) /\ Execute(c, us)) => resp' = 400]_vars

\* C4 as amended: a short command is always rejected and starts nothing; the
\* answer is 400, except 409 when the session is busy (status "running" with an
\* active task).
C4_ShortRejected ==
    [][\A c \in Commands, us \in BOOLEAN :
         (Short(c) /\ Execute(c, us)) =>
            /\ resp' = IF status = "running" /\ active_task # NoTask THEN 409 ELSE 400
            /\ runs' = runs
            /\ active_task' = active_task]_vars

\* C4 witness: a short command has been answered 400 while nothing was running.
C4_Witness == resp = 400 /\ PendingRuns = {}

\* C5: a run that hits the deadline ends failed with the fixed message, and the
\* keyboard it captured is the one set on the device.
C5_TimeoutFailsAndRestores ==
    [][\A r \in RunIds :
         RunTimeout(r) =>
            /\ status' = "failed"
            /\ result' = Some(TimeoutMsg)
            /\ runs[r].captured # NoKb => device_ime' = runs[r].captured]_vars

\* C6: a run whose cancellation /stop has requested ends with status "stopped".
C6_CancelledEndsStopped ==
    [][\A r \in RunIds :
         (Pending(r) /\ runs[r].cancel /\ ~Pending(r)') => status' = "stopped"]_vars

\* C7: every failure while building or running the agent, other than the
\* timeout and a cancellation, ends the run with status "error" and a result
\* text; a missing API key is one of these failures.
C7_FailuresEndInError ==
    [][\A r \in RunIds :
         (\/ \E kb_ok \in BOOLEAN, e \in ExceptionTexts : RunInitFails(r, kb_ok, e)
          \/ \E kb_ok \in BOOLEAN : RunInitExits(r, kb_ok)
          \/ \E e \in ExceptionTexts : RunRaises(r, e))
         => (status' = "error" /\ result' # NoText)]_vars

\* C8: from the accept of a command until its run ends, what a handler sees is
\* the reset state: status "running", no result, step counter 0.
C8_AcceptedRunSeesReset ==
    (\E r \in RunIds : Pending(r)) =>
        /\ StatusView.status = "running"
        /\ StatusView.result = NoText
        /\ StatusView.step_count = 0

\* The stored result of the run that just returned is made from text t.
StoredFrom(t) ==
    result' = Some(IF status' = "success" THEN SuccessResult(t) ELSE FailureResult(t))

\* C9: the text of a returned result is taken in strict priority order:
\* structured_output when requested and present, else output, else result, else
\* reason, else the string form of the object.
C9_NormalizationPriority ==
    [][\A r \in RunIds, obj \in ResultObjects :
         RunReturns(r, obj) =>
            LET structured == runs[r].use_structured /\ obj.structured_output # <<>> IN
            /\ structured => StoredFrom(Str(obj.structured_output[1]))
            /\ (~structured /\ obj.output # <<>>) => StoredFrom(Str(obj.output[1]))
            /\ (~structured /\ obj.output = <<>> /\ obj.result # <<>>)
                  => StoredFrom(Str(obj.result[1]))
            /\ (~structured /\ obj.output = <<>> /\ obj.result = <<>> /\ obj.reason # <<>>)
                  => StoredFrom(Str(obj.reason[1]))
            /\ (~structured /\ obj.output = <<>> /\ obj.result = <<>> /\ obj.reason = <<>>)
                  => StoredFrom(obj.repr)]_vars

\* C9 witness: a run has ended with the text of a reason attribute stored,
\* which only a result exposing neither output nor result yields.
C9_Witness == status = "success" /\ result = Some(<<"reason">>)

\* C10: a run whose agent returned ends "success" when the result has no
\* success attribute or a true one, and "failed" when it is false; the result of
\* a failed run is the normalized text, or "Unknown failure" when that is empty.
C10_SuccessOrFailed ==
    [][\A r \in RunIds, obj \in ResultObjects :
         RunReturns(r, obj) =>
            LET text == Normalize(obj, runs[r].use_structured) IN
            /\ (obj.success = <<>> \/ obj.success = <<TRUE>>) => status' = "success"
            /\ obj.success = <<FALSE>> =>
                  /\ status' = "failed"
                  /\ result' # NoText
                  /\ result'[1] # <<>>
                  /\ text = <<>> => result'[1] = UnknownFailure
                  /\ text # <<>> => result'[1] = text]_vars

\* C10 witness: a run has ended failed on an empty text.
C10_Witness == status = "failed" /\ result = Some(UnknownFailure)

\* C11: a successful run whose text contains the completion marker stores the
\* text with the marker removed and trimmed, so the stored result never
\* contains the marker token; a text without the marker is stored unchanged.
C11_MarkerStripped ==
    [][\A r \in RunIds, obj \in ResultObjects :
         (RunReturns(r, obj) /\ status' = "success") =>
            LET text == Normalize(obj, runs[r].use_structured) IN
            /\ result' # NoText
            /\ ~Contains(result'[1], "TASK_COMPLETE")
            /\ Contains(text, "TASK_COMPLETE") => result'[1] = Strip(ReplaceMarker(text))
            /\ ~Contains(text, "TASK_COMPLETE") => result'[1] = text]_vars

\* The step inserts command c into the history: update_history(c) is called,
\* on its own or by the first step of a run.
Inserts(c) ==
    \/ HistoryInsert(c)
    \/ \E r \in RunIds : CanStart(r) /\ runs[r].task_text = c /\ ready' = Tail(ready)

\* Command c put in front of the other commands of h, the first ten kept.
MostRecentFirst(h, c) ==
    LET others == SelectSeq(h, LAMBDA x : x # c)
        all == <<c>> \o others
    IN IF Len(all) > 10 THEN SubSeq(all, 1, 10) ELSE all

\* C12: the history holds no command twice and at most 10 commands, and every
\* insert puts its command in front, in place of its earlier entry if it has
\* one, and drops the least recent command beyond ten.
C12_HistoryMostRecentFirst ==
    /\ [](/\ Len(GetHistory) <= 10
          /\ \A i, j \in 1..Len(GetHistory) : i # j => GetHistory[i] # GetHistory[j])
    /\ [][\A c \in Commands \cup HistoryCommands :
            Inserts(c) => history' = MostRecentFirst(history, c)]_vars

\* C12 witness: eleven distinct commands were inserted and then the least
\* recent of the ten kept was inserted again.
C12_Witness ==
    /\ Len(history) = 10
    /\ history[1] = Cmd(2)
    /\ history[2] = Cmd(11)
    /\ Cmd(1) \notin Range(history)

\* C13: the notes are wiped at the start of every run: a run that begins to
\* execute its agent reads an empty memory, and the run created last, while it
\* executes its agent, reads no note that another run saved.
C13_NotesWipedPerRun ==
    /\ [][\A r \in RunIds, kb_ok \in BOOLEAN :
            RunStart(r, kb_ok) => ReadNotes(notes').data = {}]_vars
    /\ [](\A r \in RunIds :
            (runs[r].pc = "awaiting" /\ active_task = r) =>
               \A note \in ReadNotes(notes).data : Writer(note) = r)

\* C14: the hint rules of the error path are those of the failed path: a run
\* that ends in error on an exception text has a hint line appended exactly
\* when a run that ends failed on that text as its result has one.
C14_SameHintRules ==
    [][\A r \in RunIds, e \in ExceptionTexts :
         RunRaises(r, e) =>
            (logs' # Append(logs, Line("error", e)) <=> FailureHints(e) # <<>>)]_vars

\* C15: no operation on the stores or on the device bridge passes an error to
\* its caller: no handler of them is answered with a server error.
C15_NoErrorPropagates == [][NextStore => resp' # 500]_vars

\* C16: get_current_keyboard returns the trimmed output of the query, except
\* that it returns None when the process fails or the trimmed output is empty
\* or is the null sentinel; what it returns is what the run captures.
C16_KeyboardCaptured ==
    [][\A r \in RunIds, kb_ok \in BOOLEAN :
         RunStart(r, kb_ok) =>
            LET out == Strip(SettingsOutput)
                expected == IF ~kb_ok \/ out = <<>> \/ out = <<"null">> THEN NoKb ELSE out[1]
            IN original_keyboard' = expected /\ runs'[r].captured = expected]_vars

\* The log after a run's last step: the line of the outcome, and at most one
\* hint line after it.
EndsWith(before, after, kind) ==
    after \in { Append(before, kind), Append(before, kind) \o <<"hint">> }

\* C18: hints are advisory: a run that ends failed or in error has the status
\* and the stored result its outcome gives it whether or not a hint rule
\* matches, and a matching rule adds one log line after the line of the outcome.
C18_HintsAdvisory ==
    [][\A r \in RunIds :
         /\ \A obj \in ResultObjects :
               (RunReturns(r, obj) /\ obj.success = <<FALSE>>) =>
                  /\ status' = "failed"
                  /\ result' = Some(FailureResult(Normalize(obj, runs[r].use_structured)))
                  /\ EndsWith(logs, logs', "failed")
         /\ \A e \in ExceptionTexts :
               RunRaises(r, e) =>
                  /\ status' = "error"
                  /\ result' = Some(e)
                  /\ EndsWith(logs, logs', "error")
         /\ \A e \in ExceptionTexts, kb_ok \in BOOLEAN :
               RunInitFails(r, kb_ok, e) =>
                  /\ status' = "error"
                  /\ result' = Some(<<InitFailedPrefix>> \o e)
                  /\ EndsWith(<<>>, logs', "error")]_vars

\* C18 witness: a run has ended failed on a text a hint rule matches, the hint
\* line following the line of the failure.
C18_Witness ==
    /\ status = "failed"
    /\ result = Some(<<"429">>)
    /\ logs = <<"executing", "failed", "hint">>

\* C19: an /execute that is rejected, with 409 or with 400, changes nothing:
\* the session, the handle, the history, the notes and the tasks are as
\* before, and no task is created.
C19_RejectedChangesNothing ==
    [][\A c \in Commands, us \in BOOLEAN :
         (Execute(c, us) /\ resp' \in {409, 400}) =>
            /\ UNCHANGED <<status, logs, result, step_count, original_keyboard>>
            /\ UNCHANGED <<active_task, history, notes>>
            /\ UNCHANGED <<runs, ready>>]_vars

\* C19 witness: a command has been rejected as busy while a run was in
\* progress.
C19_Witness == resp = 409 /\ active_task # NoTask /\ status = "running"

\* C20, the part on termination: every run that /execute launched ends.
C20_EveryRunEnds == \A r \in RunIds : Pending(r) ~> ~Pending(r)

\* C20: when a run has ended, the status is one of success, failed, stopped
\* and error, never "running", and the active-task handle is none.
C20_EndedRunIsSettled ==
    [][\A r \in RunIds :
         (Pending(r) /\ ~Pending(r)') =>
            /\ status' \in {"success", "failed", "stopped", "error"}
            /\ active_task' = NoTask]_vars

\* C21: the active-task handle is set exactly when a run is in progress, and
\* the run it refers to is the run in progress.
C21_HandleTracksRun ==
    /\ active_task # NoTask <=> PendingRuns # {}
    /\ PendingRuns \subseteq {active_task}

\* C22: with every capture succeeding, no run captures the keyboard of an
\* agent as its original, and whenever no run is in progress the keyboard of
\* the device is the one it had before the first run started.
C22_UserKeyboardRestored ==
    /\ \A r \in RunIds : runs[r].captured # AgentIme
    /\ original_keyboard # AgentIme
    /\ PendingRuns = {} => device_ime = UserIme

\* C23: what a handler sees is consistent: the status is one of the six, it is
\* "idle" only while no run has started, "running" goes with no result and a
\* step counter of 0, "success", "failed" and "error" go with a result, and
\* "stopped" goes with no result.
C23_StatusResultConsistent ==
    /\ status \in {"idle", "running", "success", "failed", "stopped", "error"}
    /\ status = "idle" => (GetHistory = <<>> /\ logs = <<>> /\ result = NoText)
    /\ status = "running" => (result = NoText /\ step_count = 0)
    /\ status \in {"success", "failed", "error"} => result # NoText
    /\ status = "stopped" => result = NoText

\* The characters a slug may hold.
SlugChars == LowerCase \cup Digits \cup {"_"}

\* C17: the file of a macro or guide is named by its slug, "My Macro! #1" has
\* the slug "my_macro_1", a slug holds only lowercase letters, digits and
\* underscores, a save on a slug in use replaces the file of that slug, and no
\* save throws.
C17_SlugAndSave ==
    /\ [](\A f \in macros \cup guides : \A i \in 1..Len(f.file) : f.file[i] \in SlugChars)
    /\ [][\A n \in MacroNames, io_ok \in BOOLEAN :
            CreateMacro(n, io_ok) =>
               /\ resp' = 200
               /\ \E f \in macros' : f.file = Slug(n) /\ f.body.name = n
               /\ \A f, g \in macros' : f.file = g.file => f = g
               /\ n = <<"M", "y", " ", "M", "a", "c", "r", "o", "!", " ", "#", "1">>
                     => Slug(n) = <<"m", "y", "_", "m", "a", "c", "r", "o", "_", "1">>]_vars
    /\ [][\A t \in GuideTitles, io_ok \in BOOLEAN :
            CreateGuide(t, io_ok) =>
               /\ resp' = 200
               /\ \E f \in guides' : f.file = Slug(t) /\ f.body.title = t
               /\ \A f, g \in guides' : f.file = g.file => f = g]_vars
====
